---------------------------- MODULE Spec2Model ----------------------------
(***************************************************************************)
(* Cpp-stacktrace (Cpp-stacktrace.hpp): signal handlers and the CRITICAL   *)
(* macro print a stack trace on std::cerr and end the process.             *)
(*                                                                         *)
(* Text is modelled as a sequence of strings whose concatenation is the    *)
(* text.  A C string the code inspects byte by byte (the program name, a   *)
(* line read from the resolution tool) is a sequence of one-character      *)
(* strings; a literal or an opaque library string is one element.  The     *)
(* line feed is always an element of its own, "\n".                        *)
(***************************************************************************)
EXTENDS Integers, Sequences, FiniteSets, TLC

(***************************************************************************)
(* Bounds of the model.                                                    *)
(***************************************************************************)
\* largest number of addresses backtrace() returns in the model
MaxDepth == 5

(***************************************************************************)
(* Program constants.                                                      *)
(***************************************************************************)
MAX_BACKTRACE_LINES == 64
\* char outLine1[1035], outLine2[1035]
OutLineSize == 1035

\* the null pointer: distinct from every C string, whose elements are
\* single characters
NULL == <<"NULL">>

Last(s) == s[Len(s)]
EndsWith(s, t) == Len(s) >= Len(t) /\ SubSeq(s, Len(s) - Len(t) + 1, Len(s)) = t
Contains(s, x) == \E k \in 1..Len(s) : s[k] = x
Min(a, b) == IF a < b THEN a ELSE b
Max(a, b) == IF a > b THEN a ELSE b

(***************************************************************************)
(* Number formatting done by the stream inserters.                         *)
(***************************************************************************)
Digit(d) ==
    CASE d = 0 -> "0" [] d = 1 -> "1" [] d = 2 -> "2" [] d = 3 -> "3"
      [] d = 4 -> "4" [] d = 5 -> "5" [] d = 6 -> "6" [] d = 7 -> "7"
      [] d = 8 -> "8" [] d = 9 -> "9" [] d = 10 -> "a" [] d = 11 -> "b"
      [] d = 12 -> "c" [] d = 13 -> "d" [] d = 14 -> "e" [] d = 15 -> "f"

RECURSIVE Decimal(_)
Decimal(n) == IF n < 10 THEN Digit(n) ELSE Decimal(n \div 10) \o Digit(n % 10)

\* CriticalException::itos, and operator<<(int): oss << i
itos(i) == IF i < 0 THEN "-" \o Decimal(-i) ELSE Decimal(i)

RECURSIVE Hex(_)
Hex(n) == IF n < 16 THEN Digit(n) ELSE Hex(n \div 16) \o Digit(n % 16)

\* operator<<(void const*) and printf's %p of a non-null pointer
PtrStr(addr) == "0x" \o Hex(addr)

(***************************************************************************)
(* Signals.                                                                *)
(***************************************************************************)
\* the order of the signal() calls of set_signal_handler
SignalOrder == <<"SIGABRT", "SIGFPE", "SIGILL", "SIGINT", "SIGSEGV", "SIGTERM">>
HandledSignals == {SignalOrder[k] : k \in 1..Len(SignalOrder)}
\* a signal number the switch of posix_signal_handler has no case for
OtherSignals == {"SIGHUP"}
AllSignals == HandledSignals \cup OtherSignals

\* the switch of posix_signal_handler: the text inserted before std::endl
SignalMessage(sig) ==
    CASE sig = "SIGABRT" ->
           <<"Caught SIGABRT: usually caused by an abort() or assert()">>
      [] sig = "SIGFPE" ->
           <<"Caught SIGFPE: arithmetic exception, such as divide by zero">>
      [] sig = "SIGILL" -> <<"Caught SIGILL: illegal instruction">>
      [] sig = "SIGINT" ->
           <<"Caught SIGINT: interactive attention signal, ",
             "probably a ctrl+c">>
      [] sig = "SIGSEGV" -> <<"Caught SIGSEGV: segfault">>
      [] OTHER ->
           <<"Caught SIGTERM: a termination request was sent to ",
             "the program">>

(***************************************************************************)
(* CriticalException.                                                      *)
(***************************************************************************)
CriticalException(message, funcName, file, line) ==
    [message |-> message, funcName |-> funcName, file |-> file, line |-> line]

\* toStr with the function and the file exchanged
toStrSwapped(e) ==
    e.message \o " (in " \o e.file \o " at " \o e.funcName \o ":"
        \o itos(e.line) \o ")"

\* CriticalException::toStr
toStr(e) ==
    e.message \o " (in " \o e.funcName \o " at " \o e.file \o ":"
        \o itos(e.line) \o ")"

(***************************************************************************)
(* addr2line: the pure parts.                                              *)
(***************************************************************************)
\* "%s" of sprintf: the whole of program_name
FormatWholeProgramName(program_name) ==
    IF program_name = NULL THEN <<"(null)">> ELSE program_name

\* "%.256s" of sprintf: at most the first 256 characters of program_name;
\* the C libraries this header builds against (it needs <execinfo.h>) print
\* a null pointer as "(null)"
PathPrecision == 256
FormatProgramName(program_name) ==
    IF program_name = NULL THEN <<"(null)">>
    ELSE SubSeq(program_name, 1, Min(Len(program_name), PathPrecision))

\* sprintf(addr2line_cmd, "addr2line -C -f -e %.256s %p", program_name, addr)
Command(program_name, addr) ==
    <<"addr2line -C -f -e ">> \o FormatProgramName(program_name)
        \o <<" ", PtrStr(addr)>>

\* fgets(outLine, sizeof(outLine) - 1, fp): the number of characters it
\* stores, at most sizeof(outLine) - 2, ending with the first line feed;
\* 0 when the stream is at its end (fgets returns NULL)
FgetsLen(stream) ==
    LET lim == Min(Len(stream), OutLineSize - 2)
        nl  == {k \in 1..lim : stream[k] = "\n"}
    IN  IF nl = {} THEN lim ELSE CHOOSE k \in nl : \A j \in nl : k <= j

\* the first loop over outLine1: the string ends at its first '\r' or '\n'
CutAtEol(outLine1) ==
    LET eol == {k \in 1..Len(outLine1) : outLine1[k] \in {"\r", "\n"}}
    IN  IF eol = {} THEN outLine1
        ELSE SubSeq(outLine1, 1, (CHOOSE k \in eol : \A j \in eol : k <= j) - 1)

\* the second loop over outLine2: the offset that follows the last '/'
lastSlashPos(outLine2) ==
    LET slash == {k \in 1..Len(outLine2) : outLine2[k] = "/"}
    IN  IF slash = {} THEN 0 ELSE CHOOSE k \in slash : \A j \in slash : k >= j

\* std::cerr << "[" << lineNb << "] " << addr << " in " << outLine1
\*           << " at " << outLine2 + lastSlashPos << std::flush
ResolvedText(lineNb, addr, outLine1, outLine2) ==
    <<"[", itos(lineNb), "] ", PtrStr(addr), " in ">> \o CutAtEol(outLine1)
        \o <<" at ">>
        \o SubSeq(outLine2, lastSlashPos(outLine2) + 1, Len(outLine2))

(***************************************************************************)
(* print_stacktrace: the pure parts.                                       *)
(***************************************************************************)
\* buffer[pos]: the return address backtrace() stored at position pos
buffer(pos) == 4202048 + 16 * pos

\* strings[pos]: the text backtrace_symbols() gives for buffer[pos]
strings(pos) == "./demo() [" \o PtrStr(buffer(pos)) \o "]"

\* int i = 1; if(calledFromSigInt != 0) ++i;
FirstPos(calledFromSigInt) == IF calledFromSigInt # 0 THEN 2 ELSE 1

\* the loop condition keeping one outermost frame more: i < nptrs - 1
InWalkOneMore(pos, nptrs) == pos < nptrs - 1

\* the loop condition i < nptrs - 2
InWalk(pos, nptrs) == pos < nptrs - 2

\* an index counting down from the number of addresses left, not to 0
FrameIndexFromCount(nptrs, pos) == nptrs - 2 - pos

\* the index printed for position pos: nptrs - 2 - i - 1
FrameIndex(nptrs, pos) == nptrs - 2 - pos - 1

\* std::cerr << "[" << nptrs - 2 - i - 1 << "] " << strings[i] << std::endl
FallbackText(nptrs, pos) ==
    <<"[", itos(FrameIndex(nptrs, pos)), "] ", strings(pos), "\n">>

\* perror("backtrace_symbols")
PerrorText == <<"backtrace_symbols", ": ", "Cannot allocate memory", "\n">>

(***************************************************************************)
(* Inputs: argv[0], the statements between BEGIN_EXCEPTIONS and            *)
(* END_EXCEPTIONS, and what the resolution tool writes to its pipe.        *)
(***************************************************************************)
ProgramPath == <<".", "/", "d", "e", "m", "o">>
\* a path twice as long as what "%.256s" keeps of it
LongPath == [k \in 1..(2 * PathPrecision) |-> IF k = 1 THEN "/" ELSE "p"]
\* argv[0]: a path, a long path, the empty string, or no argument at all
ProgramNames == {ProgramPath, LongPath, <<>>, NULL}

\* the CRITICAL of the README's example, and those of A::foo and A::bar
ReadmeSite ==
    CriticalException("There has been a critical error !", "main", "main.cpp", 6)
FooSite == CriticalException("Foo crashed", "foo", "main.cpp", 37)
BarSite == CriticalException("Bar crashed", "bar", "main.cpp", 45)

\* a statement of the protected region: an ordinary statement, CRITICAL(str)
\* at a call site, a fault or raise() of a signal, or a call of
\* posix_signal_handler with a signal number
Statement(op, sig, site) == [op |-> op, sig |-> sig, site |-> site]
Plain == Statement("statement", "", ReadmeSite)
CriticalAt(site) == Statement("CRITICAL", "", site)
Raise(sig) == Statement("raise", sig, ReadmeSite)
CallHandler(sig) == Statement("posix_signal_handler", sig, ReadmeSite)

\* the README's two programs, the demo's A::Test, the demo's
\* Crasher::generateRandomCrash followed by A::Test, and a handler call
Bodies ==
    {<<Plain>>, <<CriticalAt(ReadmeSite)>>,
     <<CriticalAt(FooSite), Plain, CriticalAt(BarSite)>>,
     <<Plain, CriticalAt(BarSite)>>}
    \cup {<<Raise(sig), CriticalAt(FooSite)>> : sig \in HandledSignals}
    \cup {<<CallHandler(sig)>> : sig \in AllSignals}

LF == <<"\n">>
CR == <<"\r">>
SymbolLine == <<"m", "a", "i", "n">>
LocationLine ==
    <<"/", "s", "r", "c", "/", "m", "a", "i", "n", ".", "c", "p", "p", ":", "6">>
UnknownSymbol == <<"?", "?">>
UnknownLocation == <<"?", "?", ":", "0">>
\* a symbol longer than outLine1
LongSymbol == [k \in 1..(OutLineSize + 5) |-> "x"]

\* what the tool may write to its standard output for one address
ToolStreams ==
    {<<>>,
     SymbolLine \o LF,
     SymbolLine \o LF \o LocationLine \o LF,
     SymbolLine \o CR \o LF \o LocationLine \o LF,
     SymbolLine \o LF \o LocationLine,
     UnknownSymbol \o LF \o UnknownLocation \o LF,
     SymbolLine \o LF \o UnknownLocation \o LF,
     SymbolLine \o LF \o LocationLine \o LF \o SymbolLine \o LF,
     SymbolLine \o LF \o LocationLine \o LF \o SymbolLine \o LF
        \o LocationLine \o LF,
     LongSymbol \o LF \o UnknownLocation \o LF,
     LongSymbol \o LF \o LocationLine \o LF}

\* popen(addr2line_cmd, "r"): the words of the command between "-e " and the
\* address name the executable.  With a null or an empty program name the
\* command is "-e (null) 0x.." or "-e  0x..": the tool finds no such
\* executable, reports it on its own standard error, and nothing reaches the
\* pipe; otherwise the tool's output is any of ToolStreams
ToolOutputs(addr2line_cmd) ==
    LET path == SubSeq(addr2line_cmd, 2, Len(addr2line_cmd) - 2)
    IN  IF path = <<>> \/ path = <<"(null)">> THEN {<<>>} ELSE ToolStreams

(***************************************************************************)
(* State.                                                                  *)
(***************************************************************************)
VARIABLES
    argv0,        \* argv[0] of main
    body,         \* the statements of the protected region
    ip,           \* the statement of body main is at
    pc,           \* where the running code is
    status,       \* "running", or how the process ended
    programName,  \* Exceptions::getProgramName()
    handlers,     \* the signals whose handler is posix_signal_handler
    blocked,      \* the signals whose handler is running
    cerr,         \* what was written to the standard error stream
    exception,    \* the CriticalException thrown and not yet caught
    fr,           \* the locals of print_stacktrace and addr2line
    stack,        \* the code interrupted by a handler, innermost last
    pipes         \* the number of open pipes

vars == <<argv0, body, ip, pc, status, programName, handlers, blocked, cerr,
          exception, fr, stack, pipes>>

\* the locals at a call of print_stacktrace(calledFromSigInt), sig being the
\* argument of the posix_signal_handler that called it; fp is what is left
\* to read of output, all that the tool of the last popen wrote, and
\* addr2line_cmd the command of the last addr2line call
Locals(calledFromSigInt, sig) ==
    [calledFromSigInt |-> calledFromSigInt, sig |-> sig, nptrs |-> 0,
     i |-> 0, addr2line_cmd |-> <<>>, fp |-> NULL, output |-> NULL, ret |-> 0]

Init ==
    /\ argv0 \in ProgramNames
    /\ body \in Bodies
    /\ ip = 1
    /\ pc = "set_signal_handler"
    /\ status = "running"
    /\ programName = NULL
    /\ handlers = {}
    /\ blocked = {}
    /\ cerr = <<>>
    /\ exception = <<>>
    /\ fr = Locals(0, "")
    /\ stack = <<>>
    /\ pipes = 0

Running == status = "running"

\* the code between the start of a stack trace and the end of the process
InCrashPath ==
    pc \in {"print_stacktrace", "for", "fgets", "if", "throw", "catch", "switch"}

(***************************************************************************)
(* BEGIN_EXCEPTIONS: init_exceptions(argv[0]).                             *)
(***************************************************************************)
\* set_signal_handler: the next signal(sig, handler) call
SetSignalHandler ==
    /\ Running /\ pc = "set_signal_handler"
    /\ LET k == Cardinality(handlers) + 1
       IN  /\ handlers' = handlers \cup {SignalOrder[k]}
           /\ pc' = IF k = Len(SignalOrder) THEN "init_exceptions" ELSE pc
    /\ UNCHANGED <<argv0, body, ip, status, programName, blocked, cerr,
                   exception, fr, stack, pipes>>

\* Exceptions::getProgramName() = programName; then the try block is entered
SetProgramName ==
    /\ Running /\ pc = "init_exceptions"
    /\ programName' = argv0
    /\ pc' = "body"
    /\ UNCHANGED <<argv0, body, ip, status, handlers, blocked, cerr,
                   exception, fr, stack, pipes>>

(***************************************************************************)
(* Signals.                                                                *)
(***************************************************************************)
\* posix_signal_handler(sig) starts on top of the running code and calls
\* print_stacktrace(1)
EnterHandler(sig) ==
    /\ stack' = Append(stack, [pc |-> pc, fr |-> fr])
    /\ pc' = "print_stacktrace"
    /\ fr' = Locals(1, sig)

\* the kernel delivers sig: the registered handler runs with sig blocked, or
\* the default action ends the process
Deliver(sig) ==
    /\ sig \notin blocked
    /\ IF sig \in handlers
       THEN /\ EnterHandler(sig)
            /\ blocked' = blocked \cup {sig}
            /\ status' = status
       ELSE /\ status' = "killed"
            /\ UNCHANGED <<stack, pc, fr, blocked>>

\* a handled signal arrives from outside; a single crash path runs at a time:
\* none arrives while a crash is being reported
Signal(sig) ==
    /\ Running /\ ~InCrashPath
    /\ Deliver(sig)
    /\ UNCHANGED <<argv0, body, ip, programName, handlers, cerr, exception,
                   pipes>>

(***************************************************************************)
(* The protected region.                                                   *)
(***************************************************************************)
AtStatement(op) ==
    /\ Running /\ pc = "body"
    /\ ip <= Len(body)
    /\ body[ip].op = op

PlainStatement ==
    /\ AtStatement("statement")
    /\ ip' = ip + 1
    /\ UNCHANGED <<argv0, body, pc, status, programName, handlers, blocked,
                   cerr, exception, fr, stack, pipes>>

\* CRITICAL(str): print_stacktrace(0); the throw follows its return
CRITICAL ==
    /\ AtStatement("CRITICAL")
    /\ pc' = "print_stacktrace"
    /\ fr' = Locals(0, "")
    /\ UNCHANGED <<argv0, body, ip, status, programName, handlers, blocked,
                   cerr, exception, stack, pipes>>

\* a fault of the running statement, or raise(sig)
RaiseStatement ==
    /\ AtStatement("raise")
    /\ Deliver(body[ip].sig)
    /\ UNCHANGED <<argv0, body, ip, programName, handlers, cerr, exception,
                   pipes>>

\* posix_signal_handler(sig) called with any signal number
CallHandlerStatement ==
    /\ AtStatement("posix_signal_handler")
    /\ EnterHandler(body[ip].sig)
    /\ UNCHANGED <<argv0, body, ip, status, programName, handlers, blocked,
                   cerr, exception, pipes>>

\* END_EXCEPTIONS running the body of its catch although nothing was thrown
EndExceptionsCatches ==
    /\ Running /\ pc = "body"
    /\ ip > Len(body)
    /\ cerr' = cerr \o <<"\n">>
    /\ status' = "EXIT_FAILURE"
    /\ UNCHANGED <<argv0, body, ip, pc, programName, handlers, blocked,
                   exception, fr, stack, pipes>>

\* END_EXCEPTIONS when nothing was thrown: the statement after the catch
EndExceptions ==
    /\ Running /\ pc = "body"
    /\ ip > Len(body)
    /\ pc' = "exit"
    /\ UNCHANGED <<argv0, body, ip, status, programName, handlers, blocked,
                   cerr, exception, fr, stack, pipes>>

\* exit(EXIT_SUCCESS) after END_EXCEPTIONS
ExitSuccess ==
    /\ Running /\ pc = "exit"
    /\ status' = "EXIT_SUCCESS"
    /\ UNCHANGED <<argv0, body, ip, pc, programName, handlers, blocked, cerr,
                   exception, fr, stack, pipes>>

(***************************************************************************)
(* print_stacktrace.                                                       *)
(***************************************************************************)
\* where print_stacktrace returns to: the switch of posix_signal_handler, or
\* the throw of CRITICAL
ReturnTo(calledFromSigInt) == IF calledFromSigInt # 0 THEN "switch" ELSE "throw"

\* backtrace() stores nptrs addresses and backtrace_symbols() their strings;
\* when it returns NULL: perror and exit(EXIT_FAILURE)
PrintStacktrace ==
    /\ Running /\ pc = "print_stacktrace"
    /\ \E nptrs \in 0..Min(MaxDepth, MAX_BACKTRACE_LINES), isNull \in BOOLEAN :
          IF isNull
          THEN /\ cerr' = cerr \o PerrorText
               /\ status' = "EXIT_FAILURE"
               /\ UNCHANGED <<pc, fr>>
          ELSE /\ fr' = [fr EXCEPT !.nptrs = nptrs,
                                   !.i = FirstPos(fr.calledFromSigInt)]
               /\ pc' = "for"
               /\ UNCHANGED <<cerr, status>>
    /\ UNCHANGED <<argv0, body, ip, programName, handlers, blocked, exception,
                   stack, pipes>>

\* the loop ends: free(strings) and return to the caller
WalkReturn ==
    /\ Running /\ pc = "for"
    /\ ~InWalk(fr.i, fr.nptrs)
    /\ pc' = ReturnTo(fr.calledFromSigInt)
    /\ UNCHANGED <<argv0, body, ip, status, programName, handlers, blocked,
                   cerr, exception, fr, stack, pipes>>

(***************************************************************************)
(* addr2line(Exceptions::getProgramName(), buffer[i], nptrs - 2 - i - 1).  *)
(***************************************************************************)
\* a return path without pclose(fp)
PcloseMissing(n) == n

\* the number of open pipes after pclose(fp)
Pclose(n) == n - 1

\* what one turn of the while loop finds on the pipe: "eof" when the first
\* fgets returns NULL, "single" when the second does, "unresolved" when
\* outLine2[0] is '?', "resolved" otherwise
ReadPair(stream) ==
    LET n1 == FgetsLen(stream)
        rest == SubSeq(stream, n1 + 1, Len(stream))
        n2 == FgetsLen(rest)
        outLine2 == SubSeq(rest, 1, n2)
    IN  [kind |-> IF n1 = 0 THEN "eof"
                  ELSE IF n2 = 0 THEN "single"
                  ELSE IF outLine2[1] # "?" THEN "resolved"
                  ELSE "unresolved",
         outLine1 |-> SubSeq(stream, 1, n1),
         outLine2 |-> outLine2,
         rest |-> SubSeq(rest, n2 + 1, Len(rest))]

\* the value addr2line returns when it leaves the loop on a pair of that kind
ReturnValue(kind) == IF kind = "eof" THEN 0 ELSE 1

\* the call, sprintf and popen: fp is NULL (return 1) or the tool's output
Addr2linePopen ==
    /\ Running /\ pc = "for"
    /\ InWalk(fr.i, fr.nptrs)
    /\ LET addr2line_cmd == Command(programName, buffer(fr.i))
       IN  \/ /\ fr' = [fr EXCEPT !.addr2line_cmd = addr2line_cmd,
                                   !.fp = NULL, !.output = NULL, !.ret = 1]
              /\ pc' = "if"
              /\ pipes' = pipes
           \/ \E stream \in ToolOutputs(addr2line_cmd) :
                 /\ fr' = [fr EXCEPT !.addr2line_cmd = addr2line_cmd,
                                     !.fp = stream, !.output = stream]
                 /\ pc' = "fgets"
                 /\ pipes' = pipes + 1
    /\ UNCHANGED <<argv0, body, ip, status, programName, handlers, blocked,
                   cerr, exception, stack>>

\* one turn of while(fgets(outLine1, ...) != NULL): a readable pair is
\* printed and the loop goes on; anything else closes the pipe and returns
Addr2lineRead ==
    /\ Running /\ pc = "fgets"
    /\ LET pair == ReadPair(fr.fp)
       IN  IF pair.kind = "resolved"
           THEN /\ cerr' = cerr \o ResolvedText(FrameIndex(fr.nptrs, fr.i),
                                                buffer(fr.i), pair.outLine1,
                                                pair.outLine2)
                /\ fr' = [fr EXCEPT !.fp = pair.rest]
                /\ UNCHANGED <<pc, pipes>>
           ELSE /\ pipes' = Pclose(pipes)
                /\ fr' = [fr EXCEPT !.fp = NULL, !.ret = ReturnValue(pair.kind)]
                /\ pc' = "if"
                /\ cerr' = cerr
    /\ UNCHANGED <<argv0, body, ip, status, programName, handlers, blocked,
                   exception, stack>>

\* if(addr2line(...) != 0) the fallback line is printed; then ++i
WalkStep ==
    /\ Running /\ pc = "if"
    /\ cerr' = IF fr.ret # 0 THEN cerr \o FallbackText(fr.nptrs, fr.i) ELSE cerr
    /\ fr' = [fr EXCEPT !.i = fr.i + 1]
    /\ pc' = "for"
    /\ UNCHANGED <<argv0, body, ip, status, programName, handlers, blocked,
                   exception, stack, pipes>>

(***************************************************************************)
(* The two ends of a crash path.                                           *)
(***************************************************************************)
\* throw(CriticalException(str, __func__, __FILE__, __LINE__))
Throw ==
    /\ Running /\ pc = "throw"
    /\ LET site == body[ip].site
       IN  exception' = <<CriticalException(site.message, site.funcName,
                                            site.file, site.line)>>
    /\ pc' = "catch"
    /\ UNCHANGED <<argv0, body, ip, status, programName, handlers, blocked,
                   cerr, fr, stack, pipes>>

\* a catch that prints the exception and goes on with the next statement
CatchResumes ==
    /\ Running /\ pc = "catch"
    /\ cerr' = cerr \o <<toStr(exception[1]), "\n">>
    /\ exception' = <<>>
    /\ ip' = ip + 1
    /\ pc' = "body"
    /\ UNCHANGED <<argv0, body, status, programName, handlers, blocked, fr,
                   stack, pipes>>

\* catch(CriticalException & exception) of END_EXCEPTIONS
Catch ==
    /\ Running /\ pc = "catch"
    /\ cerr' = cerr \o <<toStr(exception[1]), "\n">>
    /\ status' = "EXIT_FAILURE"
    /\ UNCHANGED <<argv0, body, ip, pc, programName, handlers, blocked,
                   exception, fr, stack, pipes>>

\* the switch of posix_signal_handler without _Exit: the handler returns to
\* the code it interrupted
SwitchReturns ==
    /\ Running /\ pc = "switch"
    /\ cerr' = cerr \o SignalMessage(fr.sig) \o <<"\n">>
    /\ pc' = Last(stack).pc
    /\ fr' = Last(stack).fr
    /\ stack' = SubSeq(stack, 1, Len(stack) - 1)
    /\ blocked' = blocked \ {fr.sig}
    /\ UNCHANGED <<argv0, body, ip, status, programName, handlers, exception,
                   pipes>>

\* the switch of posix_signal_handler and _Exit(EXIT_FAILURE)
Switch ==
    /\ Running /\ pc = "switch"
    /\ cerr' = cerr \o SignalMessage(fr.sig) \o <<"\n">>
    /\ status' = "EXIT_FAILURE"
    /\ UNCHANGED <<argv0, body, ip, pc, programName, handlers, blocked,
                   exception, fr, stack, pipes>>

Next ==
    \/ SetSignalHandler
    \/ SetProgramName
    \/ \E sig \in HandledSignals : Signal(sig)
    \/ PlainStatement
    \/ CRITICAL
    \/ RaiseStatement
    \/ CallHandlerStatement
    \/ EndExceptions
    \/ ExitSuccess
    \/ PrintStacktrace
    \/ WalkReturn
    \/ Addr2linePopen
    \/ Addr2lineRead
    \/ WalkStep
    \/ Throw
    \/ Catch
    \/ Switch

Spec == Init /\ [][Next]_vars

(***************************************************************************)
(* Reading the diagnostic stream.                                          *)
(***************************************************************************)

\* the frame indices on the stream, in the order written: each follows a "["
BracketAt == {k \in 1..Len(cerr) : cerr[k] = "["}
PrintedIndices ==
    [j \in 1..Cardinality(BracketAt) |->
        cerr[(CHOOSE k \in BracketAt :
                 Cardinality({q \in BracketAt : q <= k}) = j) + 1]]

\* the number of frames print_stacktrace keeps of n captured ones
SkippedHead(calledFromSigInt) == IF calledFromSigInt # 0 THEN 2 ELSE 1
Retained(n, calledFromSigInt) == Max(0, n - 2 - SkippedHead(calledFromSigInt))

\* print_stacktrace has returned to its caller
WalkDone == pc \in {"switch", "throw", "catch"}

\* the number of lines of a tool output
LineCount(stream) ==
    Cardinality({k \in 1..Len(stream) : stream[k] = "\n"})
        + (IF stream # <<>> /\ Last(stream) # "\n" THEN 1 ELSE 0)

\* the second line of a tool output begins with '?'
SecondLineUnresolved(stream) ==
    \E k \in 1..(Len(stream) - 1) :
        /\ stream[k] = "\n"
        /\ \A j \in 1..(k - 1) : stream[j] # "\n"
        /\ stream[k + 1] = "?"

(***************************************************************************)
(* C1: a CRITICAL(m) raised at call site (f, p, n) inside the region and   *)
(* caught by it writes exactly the line "m (in f at p:n)" followed by the  *)
(* line end, and the process then ends with EXIT_FAILURE; for the README's *)
(* call site the line is                                                   *)
(* "There has been a critical error ! (in main at main.cpp:6)".            *)
(***************************************************************************)
ExpectedCriticalLine(site) ==
    CASE site = ReadmeSite ->
           "There has been a critical error ! (in main at main.cpp:6)"
      [] site = FooSite -> "Foo crashed (in foo at main.cpp:37)"
      [] site = BarSite -> "Bar crashed (in bar at main.cpp:45)"

C1_CriticalLine ==
    [][(pc = "catch" /\ status = "running" /\ status' # "running")
         => /\ cerr' = cerr \o <<ExpectedCriticalLine(body[ip].site), "\n">>
            /\ status' = "EXIT_FAILURE"]_vars

C1_Witness ==
    /\ pc = "catch" /\ status = "EXIT_FAILURE"
    /\ body[ip].site = ReadmeSite
    /\ EndsWith(cerr, <<"There has been a critical error ! (in main at main.cpp:6)",
                        "\n">>)

(***************************************************************************)
(* C2: a posix_signal_handler invoked for one of the six handled signals   *)
(* writes exactly one descriptive line, the one of that signal, and the    *)
(* process ends with EXIT_FAILURE; any other signal number gives the       *)
(* SIGTERM line.                                                           *)
(***************************************************************************)
ExpectedDescription(sig) ==
    CASE sig = "SIGABRT" ->
           "Caught SIGABRT: usually caused by an abort() or assert()"
      [] sig = "SIGFPE" ->
           "Caught SIGFPE: arithmetic exception, such as divide by zero"
      [] sig = "SIGILL" -> "Caught SIGILL: illegal instruction"
      [] sig = "SIGINT" -> "Caught SIGINT: interactive attention signal, "
      [] sig = "SIGSEGV" -> "Caught SIGSEGV: segfault"
      [] sig = "SIGTERM" -> "Caught SIGTERM: a termination request was sent to "
      [] OTHER -> "Caught SIGTERM: a termination request was sent to "

Descriptions == {ExpectedDescription(sig) : sig \in HandledSignals}

\* the handler that was invoked has ended the process
HandlerEnded == status # "running" /\ InCrashPath /\ fr.calledFromSigInt # 0

C2_OneDescriptiveLine ==
    HandlerEnded
        => /\ status = "EXIT_FAILURE"
           /\ SelectSeq(cerr, LAMBDA t : t \in Descriptions)
                = <<ExpectedDescription(fr.sig)>>

(***************************************************************************)
(* C3: every entry into a reporting path (a handled signal delivered, or a *)
(* CRITICAL raised inside the region) leads to the end of the process with *)
(* EXIT_FAILURE, and from then on no statement of the protected region     *)
(* runs: the code never leaves the reporting path.                         *)
(***************************************************************************)
\* an upper bound on the steps a crash path still takes: those of the frames
\* left to walk, each at most a popen, one read per character of the tool's
\* output, a last read and the test of the result, then the final line
LongestOutput ==
    CHOOSE m \in {Len(t) : t \in ToolStreams} : \A t \in ToolStreams : Len(t) <= m
StepsOfFrame == LongestOutput + 3
StepsLeft ==
    LET framesLeft == Max(0, fr.nptrs - 2 - fr.i)
    IN  CASE status # "running" -> 0
          [] pc \in {"switch", "catch"} -> 1
          [] pc = "throw" -> 2
          [] pc = "for" -> 3 + framesLeft * StepsOfFrame
          [] pc = "if" -> 4 + (framesLeft - 1) * StepsOfFrame
          [] pc = "fgets" -> 5 + (framesLeft - 1) * StepsOfFrame + Len(fr.fp)
          [] OTHER -> 4 + MaxDepth * StepsOfFrame

\* a running crash path can take its next step; Addr2lineRead has no other
\* condition than an open pipe to read
CanStep ==
    \/ pc = "fgets" /\ fr.fp # NULL
    \/ ENABLED (PrintStacktrace \/ WalkReturn \/ Addr2linePopen \/ WalkStep
                  \/ Throw \/ Catch \/ Switch)

C3_CrashPathEnds ==
    /\ []((InCrashPath /\ status = "running") => CanStep)
    /\ [][InCrashPath
            => /\ InCrashPath'
               /\ ip' = ip
               /\ status' \in {"running", "EXIT_FAILURE"}
               /\ StepsLeft' < StepsLeft]_vars

C3_Witness ==
    /\ status = "EXIT_FAILURE" /\ pc = "switch"
    /\ stack # <<>> /\ Last(stack).pc = "body"
    /\ ip <= Len(body)

(***************************************************************************)
(* C4: on both crash paths the stream holds the frame lines of the walk    *)
(* first and then exactly one final line (the signal's description, or the *)
(* critical message) when the process ends; no frame line follows it.      *)
(***************************************************************************)
FinalLine ==
    IF fr.calledFromSigInt # 0
    THEN SignalMessage(fr.sig) \o <<"\n">>
    ELSE <<ExpectedCriticalLine(body[ip].site), "\n">>

\* every line of text starts a frame line, and the last one is ended
FrameLinesOnly(text) ==
    /\ text = <<>> \/ Last(text) = "\n"
    /\ \A k \in 1..Len(text) :
          (k = 1 \/ text[k - 1] = "\n") => text[k] = "["

C4_FramesThenFinalLine ==
    (status # "running" /\ InCrashPath)
        => /\ EndsWith(cerr, FinalLine)
           /\ FrameLinesOnly(SubSeq(cerr, 1, Len(cerr) - Len(FinalLine)))
           /\ ~Contains(SubSeq(cerr, 1, Len(cerr) - Len(FinalLine)), FinalLine[1])

(***************************************************************************)
(* C5: whatever the mix of resolved and unresolved frames, the indices     *)
(* print_stacktrace prints for D retained frames are D-1, D-2, ..., 0,     *)
(* each once, in this order.                                               *)
(***************************************************************************)
C5_IndicesCountDown ==
    WalkDone
        => LET D == Retained(fr.nptrs, fr.calledFromSigInt)
           IN  PrintedIndices = [j \in 1..D |-> itos(D - j)]

(***************************************************************************)
(* C6: when the tool's output has no line at all, or one line only,        *)
(* addr2line returns non-zero.                                             *)
(***************************************************************************)
C6_MissingLineFails ==
    (pc = "if" /\ fr.output # NULL /\ LineCount(fr.output) <= 1)
        => fr.ret # 0

(***************************************************************************)
(* C7: with a null or empty program name print_stacktrace returns, having  *)
(* printed for every retained frame its index and its backtrace_symbols    *)
(* string, and nothing else.                                               *)
(***************************************************************************)
RECURSIVE FallbackLines(_, _)
FallbackLines(nptrs, pos) ==
    IF pos < nptrs - 2
    THEN <<"[", itos(nptrs - 3 - pos), "] ", strings(pos), "\n">>
            \o FallbackLines(nptrs, pos + 1)
    ELSE <<>>

C7_NoIdentityFallsBack ==
    (pc \in {"switch", "throw"} /\ status = "running"
        /\ programName \in {NULL, <<>>})
        => cerr = FallbackLines(fr.nptrs, SkippedHead(fr.calledFromSigInt))

(***************************************************************************)
(* C8: when the second line of the tool's output begins with '?',          *)
(* addr2line writes nothing and returns non-zero, and all that is written  *)
(* for the frame is "[index] ", its backtrace_symbols string and the line  *)
(* end.                                                                    *)
(***************************************************************************)
C8_UnresolvedFallsBack ==
    /\ [][(pc = "fgets" /\ SecondLineUnresolved(fr.output))
            => (cerr' = cerr /\ fr'.ret # 0)]_vars
    /\ [][(pc = "if" /\ fr.output # NULL /\ SecondLineUnresolved(fr.output))
            => cerr' = cerr \o <<"[", itos(fr.nptrs - 3 - fr.i), "] ",
                                 strings(fr.i), "\n">>]_vars

(***************************************************************************)
(* C9: every addr2line call that opened the pipe has closed it when it     *)
(* returns, whatever the path it returns by: one pipe is open while        *)
(* addr2line reads, none at any other time.                                *)
(***************************************************************************)
C9_PipeClosed == pipes = (IF pc = "fgets" THEN 1 ELSE 0)

\* two calls have returned, one having printed a resolved frame and one not,
\* the latter after reading the pipe to its end
C9_Witness ==
    /\ pc = "if" /\ pipes = 0
    /\ fr.output # NULL /\ fr.fp = NULL /\ fr.ret = 1
    /\ Contains(cerr, " in ")
    /\ Cardinality(BracketAt) = 1
    /\ fr.i = SkippedHead(fr.calledFromSigInt) + 1

(***************************************************************************)
(* C10: of n captured addresses print_stacktrace processes exactly the     *)
(* positions 1+s .. n-3 (s = 1 from the signal handler, else 0), in this   *)
(* order and none when n <= 3+s; every position it reads is in 0..n-1 and  *)
(* every index it prints is at least 0.                                    *)
(***************************************************************************)
DisplayIndices == {itos(k) : k \in 0..MAX_BACKTRACE_LINES}

WalkPositionsInRange ==
    LET s == IF fr.calledFromSigInt # 0 THEN 1 ELSE 0
        n == fr.nptrs
    IN  /\ pc \in {"fgets", "if"}
              => /\ fr.i \in (1 + s)..(n - 3)
                 /\ fr.i \in 0..(n - 1)
                 /\ n - 3 - fr.i >= 0
        /\ pc = "for" => fr.i \in (1 + s)..Max(1 + s, n - 2)
        /\ WalkDone => fr.i = Max(1 + s, n - 2)
        /\ \A k \in BracketAt : cerr[k + 1] \in DisplayIndices

WalkPositionsInOrder ==
    /\ (pc \in {"for", "fgets", "if"}
          /\ pc' \in {"for", "fgets", "if", "switch", "throw"})
         => fr'.i = IF pc = "if" THEN fr.i + 1 ELSE fr.i
    /\ (pc = "print_stacktrace" /\ pc' = "for")
         => fr'.i = IF fr.calledFromSigInt # 0 THEN 2 ELSE 1

C10_Positions == []WalkPositionsInRange /\ [][WalkPositionsInOrder]_vars

\* the last position of the deepest capture is being processed by the handler
C10_Witness ==
    /\ pc = "if" /\ fr.calledFromSigInt # 0
    /\ fr.nptrs = MaxDepth /\ fr.i = fr.nptrs - 3

(***************************************************************************)
(* C11: print_stacktrace never ends the process: from its call to its      *)
(* return, whether called by the signal handler or by CRITICAL, no step    *)
(* of it leaves the process in another state than running.                 *)
(***************************************************************************)
InPrintStacktrace == pc \in {"print_stacktrace", "for", "fgets", "if"}

C11_WalkerReturns == [][InPrintStacktrace => status' = "running"]_vars

(***************************************************************************)
(* C12: the program name is written before any addr2line call can read it  *)
(* and never again: a call made while the handler runs finds the name      *)
(* init_exceptions was given, and only init_exceptions changes the name    *)
(* and the registered handlers, before the protected region starts.        *)
(***************************************************************************)
InAddr2line == pc \in {"fgets", "if"}

IdentityWrittenOnce ==
    /\ programName' # programName => (pc = "init_exceptions" /\ pc' = "body")
    /\ handlers' # handlers => pc = "set_signal_handler"

C12_IdentitySetFirst ==
    /\ []((InAddr2line /\ fr.calledFromSigInt # 0) => programName = argv0)
    /\ [][IdentityWrittenOnce]_vars

(***************************************************************************)
(* C13: a process that ends after CRITICAL was raised inside the region    *)
(* has written the line of that critical error on the standard error       *)
(* stream, also when backtrace_symbols fails.                              *)
(***************************************************************************)
CriticalRaised == InCrashPath /\ stack = <<>> /\ fr.calledFromSigInt = 0

C13_CriticalSurfaced ==
    (CriticalRaised /\ status # "running")
        => Contains(cerr, ExpectedCriticalLine(body[ip].site))

(***************************************************************************)
(* C14: when the protected region ends without CRITICAL and without a      *)
(* handled signal, leaving it writes nothing on the standard error stream  *)
(* and does not end the process: the statement after END_EXCEPTIONS runs   *)
(* with the program name and the registered handlers as init_exceptions    *)
(* left them.  (A step that leaves the stack of interrupted code as it is  *)
(* is a step of main, not the start of a signal handler.)                  *)
(***************************************************************************)
AfterEndExceptions == pc = "exit"

C14_NormalExit ==
    /\ [](AfterEndExceptions
            => /\ cerr = <<>>
               /\ status \in {"running", "EXIT_SUCCESS"}
               /\ programName = argv0
               /\ handlers = HandledSignals
               /\ exception = <<>>)
    /\ [][(pc = "body" /\ ip > Len(body) /\ stack' = stack)
            => /\ AfterEndExceptions'
               /\ UNCHANGED <<cerr, status, programName, handlers, blocked>>]_vars

\* the region of the README's first example has been left
C14_Witness ==
    /\ AfterEndExceptions /\ status = "running"
    /\ body = <<Plain>> /\ ip = Len(body) + 1

(***************************************************************************)
(* C15: for each retained frame exactly one line is written, a resolved    *)
(* one or a fallback one, never both and never none, whatever the number   *)
(* of lines the tool writes; addr2line reads two lines of it and no more.  *)
(***************************************************************************)
C15_OneLinePerFrame ==
    /\ (pc = "for" /\ status = "running")
          => Cardinality(BracketAt) = fr.i - FirstPos(fr.calledFromSigInt)
    /\ (pc = "fgets" /\ fr.fp # fr.output) => fr.fp = <<>>

(***************************************************************************)
(* C16: at most one critical error is consumed by a process: once CRITICAL *)
(* is raised no later statement of the region runs, the stream never holds *)
(* a second critical line, and the line the catch prints is that of the    *)
(* message, function, file and line of the call site.                      *)
(***************************************************************************)
CriticalTexts == {toStr(site) : site \in {ReadmeSite, FooSite, BarSite}}
CriticalLines == {k \in 1..Len(cerr) : cerr[k] \in CriticalTexts}

CriticalRaisedStays == CriticalRaised => (CriticalRaised' /\ ip' = ip)

C16_OneCritical ==
    /\ [](Cardinality(CriticalLines) <= 1)
    /\ [](exception # <<>> => exception = <<body[ip].site>>)
    /\ []((CriticalRaised /\ pc = "catch" /\ status # "running")
            => \E k \in CriticalLines : cerr[k] = toStr(body[ip].site))
    /\ [][CriticalRaisedStays]_vars

\* the demo's foo has raised its CRITICAL and the process has ended, bar's
\* CRITICAL being still ahead in the region
C16_Witness ==
    /\ status = "EXIT_FAILURE" /\ pc = "catch"
    /\ body[ip].site = FooSite
    /\ ip < Len(body) /\ body[Len(body)].op = "CRITICAL"
    /\ Cardinality(CriticalLines) = 1

(***************************************************************************)
(* C17: what a successful resolution prints is, for the symbol, the first  *)
(* line of the tool's output cut at its first carriage return or line      *)
(* feed, and for the location, what follows the last '/' of the second     *)
(* line (the whole second line when it has none): no '/' is printed in     *)
(* the location.  A successful resolution: the second line of the tool     *)
(* does not begin with '?' and addr2line prints for the first pair.        *)
(***************************************************************************)
Least(S) == CHOOSE k \in S : \A j \in S : k <= j
Greatest(S) == CHOOSE k \in S : \A j \in S : k >= j

\* the positions of the line feeds of a text, and the first of them (past
\* the end of a text that has none)
LineFeeds(text) == {k \in 1..Len(text) : text[k] = "\n"}
FirstLineFeed(text) ==
    Least({Len(text) + 1} \cup LineFeeds(text))

\* the first and the second line of the tool's output, line feed included
ToolLine1(stream) == SubSeq(stream, 1, Min(Len(stream), FirstLineFeed(stream)))
ToolLine2(stream) ==
    ToolLine1(SubSeq(stream, Len(ToolLine1(stream)) + 1, Len(stream)))

\* a text up to its first carriage return or line feed
UpToEol(text) ==
    SubSeq(text, 1,
           Least({Len(text) + 1}
                   \cup {k \in 1..Len(text) : text[k] \in {"\r", "\n"}}) - 1)

\* what follows the last '/' of a text
AfterLastSlash(text) ==
    SubSeq(text,
           Greatest({0} \cup {k \in 1..Len(text) : text[k] = "/"}) + 1,
           Len(text))

C17_SymbolAndLocation ==
    [][(pc = "fgets" /\ fr.fp = fr.output /\ cerr' # cerr
          /\ ~SecondLineUnresolved(fr.output))
         => /\ cerr' = cerr
                  \o <<"[", itos(fr.nptrs - 3 - fr.i), "] ",
                       PtrStr(buffer(fr.i)), " in ">>
                  \o UpToEol(ToolLine1(fr.output))
                  \o <<" at ">>
                  \o AfterLastSlash(ToolLine2(fr.output))
            /\ ~Contains(AfterLastSlash(ToolLine2(fr.output)), "/")]_vars

(***************************************************************************)
(* C18: the display index counts down from the number of retained frames   *)
(* to 0: a line written for the first retained frame carries the number of *)
(* retained frames, a line written for the last carries 0.                 *)
(***************************************************************************)
\* the step writes a frame line for the position fr.i, and its index
FrameLineWritten ==
    /\ InPrintStacktrace /\ Len(cerr') > Len(cerr)
    /\ cerr'[Len(cerr) + 1] = "["
WrittenIndex == cerr'[Len(cerr) + 2]

\* the rank of position fr.i among the retained ones, from 0
Rank == fr.i - FirstPos(fr.calledFromSigInt)

C18_IndexFromCount ==
    [][FrameLineWritten
         => /\ Rank = 0
                => WrittenIndex = itos(Retained(fr.nptrs, fr.calledFromSigInt))
            /\ Rank = Retained(fr.nptrs, fr.calledFromSigInt) - 1
                => WrittenIndex = itos(0)]_vars

\* as amended: the index counts down from the number of retained frames
\* less one to 0, every line written for the frame of rank r carrying D-1-r
C18_IndexFromCountLessOne ==
    [][FrameLineWritten
         => WrittenIndex
               = itos(Retained(fr.nptrs, fr.calledFromSigInt) - 1 - Rank)]_vars

\* a walk of at least two retained frames has ended, with a line for the
\* first frame and a line for the last
C18_Witness ==
    /\ WalkDone /\ status = "running"
    /\ Retained(fr.nptrs, fr.calledFromSigInt) >= 2
    /\ Cardinality(BracketAt) = Retained(fr.nptrs, fr.calledFromSigInt)
    /\ PrintedIndices[1] = itos(Retained(fr.nptrs, fr.calledFromSigInt) - 1)
    /\ PrintedIndices[Cardinality(BracketAt)] = itos(0)

(***************************************************************************)
(* C19: whatever the length of the program path, and for any address, the  *)
(* command addr2line builds holds at most the first 256 characters of the  *)
(* path, and with its terminator it fits the 512 bytes of addr2line_cmd.   *)
(***************************************************************************)
\* sizeof(addr2line_cmd)
CmdSize == 512

\* the number of characters of a text: one for each of its elements, and
\* the others of those that hold more than one ("(null)", the address)
RECURSIVE OtherBytes(_, _)
OtherBytes(text, wide) ==
    IF wide = {} THEN 0
    ELSE LET k == CHOOSE j \in wide : TRUE
         IN  Len(text[k]) - 1 + OtherBytes(text, wide \ {k})
Bytes(text) ==
    Len(text) + OtherBytes(text, {k \in 1..Len(text) : Len(text[k]) > 1})

\* the path of a command: what stands between "addr2line -C -f -e " and the
\* space before the address
PathOf(cmd) == SubSeq(cmd, 2, Len(cmd) - 2)

\* the longest text "%p" writes for a pointer of 64 bits
WidestPointer == Len("0xffffffffffffffff")

C19_CommandFits ==
    InAddr2line
        => LET cmd == fr.addr2line_cmd
               path == PathOf(cmd)
               size == Bytes(cmd) + 1
           IN  /\ cmd = <<"addr2line -C -f -e ">> \o path
                           \o <<" ", PtrStr(buffer(fr.i))>>
               /\ Bytes(path) <= PathPrecision
               /\ programName # NULL => path = SubSeq(programName, 1, Len(path))
               /\ size <= CmdSize
               /\ size - Len(Last(cmd)) + WidestPointer <= CmdSize

\* a command has been built from a path longer than 256 characters
C19_Witness ==
    /\ InAddr2line /\ programName # NULL
    /\ Len(programName) > PathPrecision
    /\ Len(PathOf(fr.addr2line_cmd)) = PathPrecision

=============================================================================
